---- MODULE Spec2Model ----
(***************************************************************************)
(* Model of haptools/data/genotypes.py: the Genotypes class (read,         *)
(* iterate, check_biallelic, check_phase, to_MAC) over a VCF source.       *)
(*                                                                         *)
(* An array is a record [kind, shape, dtype, val].  A 3-D ndarray of shape *)
(* (n, p, c) holds val[i][j][k]; booleans are the integers 0 and 1 under    *)
(* dtype "bool"; uint8 values are integers in 0..255.  Frequencies are     *)
(* counted in tenths (6 stands for 0.6).                                   *)
(***************************************************************************)
EXTENDS Integers, Sequences, FiniteSets, TLC

VARIABLES file, data, variants, samples, last, done, vcf, gen

vars == <<file, data, variants, samples, last, done, vcf, gen>>

(* ---------------------------- bounds ----------------------------------- *)
NSamples == 2
MaxVariants == 2

(* ---------------------------- the source ------------------------------- *)
\* per-sample calls (strand one, strand two, phased) a record can hold:
\* heterozygous and phased, heterozygous and unphased, and a phased call
\* with a second alternate allele
Calls == {<<1, 0, 1>>, <<0, 1, 0>>, <<0, 2, 1>>}
\* alternate allele frequencies, in tenths
Freqs == {5, 6}
FreqOne == 10

SampleNames == [i \in 1..NSamples |-> <<"HG", i>>]

Record(j, f, g) ==
    [ID |-> <<"rs", j>>, CHROM |-> "1", POS |-> 10113 + j, aaf |-> f, genotypes |-> g]

Files ==
    UNION {{[samples |-> SampleNames,
             recs |-> [j \in 1..p |-> Record(j, c[j][1], c[j][2])]] :
               c \in [1..p -> Freqs \X [1..NSamples -> Calls]]} : p \in 0..MaxVariants}

NoRegion == "None"
Regions == {NoRegion, "1", "chr1"}

\* vcf(region): the records of the source whose contig is the region's
Query(f, region) ==
    IF region = NoRegion THEN f.recs
    ELSE SelectSeq(f.recs, LAMBDA r : r.CHROM = region)

(* ---------------------------- numpy ------------------------------------ *)
RECURSIVE BitXor(_, _)
BitXor(a, b) ==
    IF a = 0 THEN b ELSE IF b = 0 THEN a
    ELSE (((a % 2) + (b % 2)) % 2) + 2 * BitXor(a \div 2, b \div 2)

RECURSIVE BitAnd(_, _)
BitAnd(a, b) ==
    IF a = 0 \/ b = 0 THEN 0
    ELSE ((a % 2) * (b % 2)) + 2 * BitAnd(a \div 2, b \div 2)

\* a ^ b, a & b and ~a on elements of the given dtype
Xor(dtype, a, b) == IF dtype = "bool" THEN (a + b) % 2 ELSE BitXor(a, b)
And(dtype, a, b) == IF dtype = "bool" THEN a * b ELSE BitAnd(a, b)
Invert(dtype, a) == IF dtype = "bool" THEN 1 - a ELSE 255 - a

\* arr.astype(np.bool_) on one element
AsBool(a) == IF a = 0 THEN 0 ELSE 1

NoneValue == [kind |-> "none", shape |-> <<>>, dtype |-> "none", val |-> <<>>]
PyList(v) == [kind |-> "list", shape |-> <<>>, dtype |-> "none", val |-> v]
NdArray(shape, dtype, v) == [kind |-> "ndarray", shape |-> shape, dtype |-> dtype, val |-> v]

\* np.array(list_of_genotypes, dtype=np.uint8): (p, n, 3), or (0,) for []
ArrayOfList(lst) ==
    IF Len(lst) = 0 THEN NdArray(<<0>>, "uint8", <<>>)
    ELSE NdArray(<<Len(lst), Len(lst[1]), Len(lst[1][1])>>, "uint8", lst)

\* arr.transpose((1, 0, 2)) of a 3-D array
Transpose(a) ==
    NdArray(<<a.shape[2], a.shape[1], a.shape[3]>>, a.dtype,
            [i \in 1..a.shape[2] |-> [j \in 1..a.shape[1] |-> a.val[j][i]]])

(* ---------------------------- results ---------------------------------- *)
NoErr == [type |-> "none", msg |-> <<>>]
Error(type, msg) == [type |-> type, msg |-> msg]

Self == [data |-> data, variants |-> variants, samples |-> samples]

\* the object after a call, with the exception it raised and what it logged
Return(self, log) ==
    [data |-> self.data, variants |-> self.variants, samples |-> self.samples,
     err |-> NoErr, log |-> log]
Raise(self, err, log) ==
    [data |-> self.data, variants |-> self.variants, samples |-> self.samples,
     err |-> err, log |-> log]

(* ---------------------------- Genotypes.read --------------------------- *)
\* Data.read(): warns when data is already loaded
Data_read(self) == IF self.data.kind = "none" THEN <<>> ELSE <<"already loaded">>

VariantsList(recs) == [j \in 1..Len(recs) |-> <<recs[j].ID, recs[j].CHROM, recs[j].POS, recs[j].aaf>>]
GenotypesList(recs) == [j \in 1..Len(recs) |-> recs[j].genotypes]

\* np.array(self.variants, dtype=[("id", ..), ("chrom", ..), ("pos", ..), ("aaf", ..)])
VariantsArray(lst) ==
    [kind |-> "ndarray", names |-> <<"id", "chrom", "pos", "aaf">>,
     val |-> [j \in 1..Len(lst) |-> [id |-> lst[j][1], chrom |-> lst[j][2],
                                      pos |-> lst[j][3], freq |-> lst[j][4]]]]

\* fault = 0: the reader yields every selected record; fault = k > 0: the
\* reader raises when asked for its k-th item.  The result also tells whether
\* vcf.close() was reached.
read(self, f, region, fault) ==
    LET log0 == Data_read(self)
        sel == Query(f, region)
        got == IF fault = 0 THEN sel ELSE SubSeq(sel, 1, fault - 1)
        filled == [data |-> PyList(GenotypesList(got)),
                   variants |-> [kind |-> "list", names |-> <<>>, val |-> VariantsList(got)],
                   samples |-> f.samples]
    IN  IF fault # 0
        THEN [res |-> Raise(filled, Error("ReaderError", <<>>), log0), closed |-> FALSE]
        ELSE LET arr == ArrayOfList(filled.data.val)
                 conv == [filled EXCEPT !.variants = VariantsArray(filled.variants.val),
                                        !.data = arr]
                 log1 == IF arr.shape = <<0, 0, 0>>
                         THEN log0 \o <<"failed to load">> ELSE log0
             IN  IF Len(arr.shape) # 3
                 THEN [res |-> Raise(conv, Error("ValueError", <<"axes don't match array">>), log1),
                       closed |-> TRUE]
                 ELSE [res |-> Return([conv EXCEPT !.data = Transpose(arr)], log1),
                       closed |-> TRUE]

Call(op, discard, r) ==
    /\ data' = r.data
    /\ variants' = r.variants
    /\ samples' = r.samples
    /\ last' = [op |-> op, discard |-> discard, err |-> r.err, log |-> r.log]

Read ==
    \E region \in Regions, fault \in 0..(MaxVariants + 1) :
        /\ fault <= Len(Query(file, region)) + 1
        /\ LET r == read(Self, file, region, fault)
           IN  /\ Call("read", FALSE, r.res)
               /\ vcf' = IF r.closed THEN "closed" ELSE "open"
        /\ done' = {}
        /\ UNCHANGED <<file, gen>>

(* ---------------------------- Genotypes.check_biallelic ---------------- *)
\* the attribute or index error an operation meets on an object that holds
\* no (n, p, c) array
AttributeError == Error("AttributeError", <<>>)
IndexError == Error("IndexError", <<>>)

\* np.any(self.data[:, :, :2] > 1, axis=2)
multiallelic(d) ==
    [i \in 1..d.shape[1] |-> [j \in 1..d.shape[2] |->
        IF d.val[i][j][1] > 1 \/ d.val[i][j][2] > 1 THEN 1 ELSE 0]]

\* np.any of a 2-D mask with the given shape
any(m, shape) == \E i \in 1..shape[1], j \in 1..shape[2] : m[i][j] # 0

\* np.nonzero of a 2-D mask: the <<row, column>> of every nonzero entry, in
\* row-major order
RECURSIVE nonzeroFrom(_, _, _)
nonzeroFrom(m, shape, k) ==
    IF k > shape[1] * shape[2] THEN <<>>
    ELSE LET i == ((k - 1) \div shape[2]) + 1
             j == ((k - 1) % shape[2]) + 1
         IN  (IF m[i][j] # 0 THEN <<<<i, j>>>> ELSE <<>>) \o nonzeroFrom(m, shape, k + 1)

\* the same entries in column-major order
RECURSIVE nonzeroColumnsFrom(_, _, _)
nonzeroColumnsFrom(m, shape, k) ==
    IF k > shape[1] * shape[2] THEN <<>>
    ELSE LET j == ((k - 1) \div shape[1]) + 1
             i == ((k - 1) % shape[1]) + 1
         IN  (IF m[i][j] # 0 THEN <<<<i, j>>>> ELSE <<>>) \o nonzeroColumnsFrom(m, shape, k + 1)

nonzero_colmajor(m, shape) == nonzeroColumnsFrom(m, shape, 1)

nonzero(m, shape) == nonzeroFrom(m, shape, 1)

samp_idx(nz) == [k \in 1..Len(nz) |-> nz[k][1]]
variant_idx(nz) == [k \in 1..Len(nz) |-> nz[k][2]]

Range(s) == {s[k] : k \in 1..Len(s)}

\* np.delete(seq, idx): seq without the positions idx names
RECURSIVE DeleteFrom(_, _, _)
DeleteFrom(s, idx, k) ==
    IF k > Len(s) THEN <<>>
    ELSE (IF k \in Range(idx) THEN <<>> ELSE <<s[k]>>) \o DeleteFrom(s, idx, k + 1)

\* deleting only the first position idx names
Delete_first(s, idx) == DeleteFrom(s, <<idx[1]>>, 1)

Delete(s, idx) == DeleteFrom(s, idx, 1)

\* np.delete(self.data, variant_idx, axis=1)
DeleteColumns(d, idx) ==
    LET v == [i \in 1..d.shape[1] |-> Delete(d.val[i], idx)]
    IN  NdArray(<<d.shape[1], d.shape[2] - Cardinality(Range(idx)), d.shape[3]>>, d.dtype, v)

\* np.delete(self.variants, variant_idx)
DeleteVariants(v, idx) == [v EXCEPT !.val = Delete(v.val, idx)]

\* self.data.astype(np.bool_)
astype_bool(d) ==
    NdArray(d.shape, "bool",
            [i \in 1..d.shape[1] |-> [j \in 1..d.shape[2] |->
                [k \in 1..d.shape[3] |-> AsBool(d.val[i][j][k])]]])

\* the message of the ValueError: the variant's first three fields and the sample
Message(what, self, nz) ==
    LET v == self.variants.val[variant_idx(nz)[1]]
    IN  <<what, v.id, v.chrom, v.pos, self.samples[samp_idx(nz)[1]]>>

check_biallelic(self, discard_also) ==
    IF self.data.kind # "ndarray" THEN Raise(self, AttributeError, <<>>)
    ELSE IF self.data.dtype = "bool"
    THEN Return(self, <<"All genotypes are already biallelic">>)
    ELSE IF Len(self.data.shape) # 3 THEN Raise(self, IndexError, <<>>)
    ELSE LET m == multiallelic(self.data)
             sh == self.data.shape
             nz == nonzero(m, sh)
         IN  IF any(m, sh)
             THEN IF discard_also
                  THEN LET kept == [self EXCEPT
                                      !.data = DeleteColumns(self.data, variant_idx(nz)),
                                      !.variants = DeleteVariants(self.variants, variant_idx(nz))]
                       IN  Return([kept EXCEPT !.data = astype_bool(kept.data)], <<>>)
                  ELSE Raise(self, Error("ValueError", Message("multiallelic", self, nz)), <<>>)
             ELSE Return([self EXCEPT !.data = astype_bool(self.data)], <<>>)

Succeeded(op, r) == IF r.err = NoErr THEN done \cup {op} ELSE done

CheckBiallelic ==
    \E discard_also \in BOOLEAN :
        LET r == check_biallelic(Self, discard_also)
        IN  /\ Call("check_biallelic", discard_also, r)
            /\ done' = Succeeded("check_biallelic", r)
            /\ UNCHANGED <<file, vcf, gen>>

(* ---------------------------- Genotypes.check_phase -------------------- *)
\* (self.data[:, :, 0] ^ self.data[:, :, 1]) & (~self.data[:, :, 2])
unphased(d) ==
    [i \in 1..d.shape[1] |-> [j \in 1..d.shape[2] |->
        And(d.dtype, Xor(d.dtype, d.val[i][j][1], d.val[i][j][2]),
                     Invert(d.dtype, d.val[i][j][3]))]]

\* self.data[:, :, :2]
FirstTwo(d) ==
    NdArray(<<d.shape[1], d.shape[2], 2>>, d.dtype,
            [i \in 1..d.shape[1] |-> [j \in 1..d.shape[2] |-> SubSeq(d.val[i][j], 1, 2)]])

\* check_phase that drops the phase channel before it looks for unphased calls
check_phase_eager(self) ==
    IF self.data.kind # "ndarray" THEN Raise(self, AttributeError, <<>>)
    ELSE IF Len(self.data.shape) < 3 THEN Raise(self, IndexError, <<>>)
    ELSE IF self.data.shape[3] < 3
    THEN Return(self, <<"Phase information has already been removed from the data">>)
    ELSE LET m == unphased(self.data)
             sh == self.data.shape
             dropped == [self EXCEPT !.data = FirstTwo(self.data)]
         IN  IF any(m, sh)
             THEN Raise(dropped, Error("ValueError", Message("unphased", self, nonzero(m, sh))), <<>>)
             ELSE Return(dropped, <<>>)

check_phase(self) ==
    IF self.data.kind # "ndarray" THEN Raise(self, AttributeError, <<>>)
    ELSE IF Len(self.data.shape) < 3 THEN Raise(self, IndexError, <<>>)
    ELSE IF self.data.shape[3] < 3
    THEN Return(self, <<"Phase information has already been removed from the data">>)
    ELSE LET m == unphased(self.data)
             sh == self.data.shape
         IN  IF any(m, sh)
             THEN Raise(self, Error("ValueError", Message("unphased", self, nonzero(m, sh))), <<>>)
             ELSE Return([self EXCEPT !.data = FirstTwo(self.data)], <<>>)

CheckPhase ==
    LET r == check_phase(Self)
    IN  /\ Call("check_phase", FALSE, r)
        /\ done' = Succeeded("check_phase", r)
        /\ UNCHANGED <<file, vcf, gen>>

(* ---------------------------- Genotypes.to_MAC ------------------------- *)
\* self.variants["aaf"] >= 0.5
need_conversion_ge(v) == [j \in 1..Len(v.val) |-> 2 * v.val[j].freq >= FreqOne]

\* self.variants["aaf"] > 0.5
need_conversion(v) == [j \in 1..Len(v.val) |-> 2 * v.val[j].freq > FreqOne]

\* the flip written as 1 - x, which turns a boolean array into counts
FlipColumns_counts(d, nc) ==
    [d EXCEPT !.dtype = "uint8",
              !.val = [i \in 1..d.shape[1] |-> [j \in 1..d.shape[2] |->
        [k \in 1..d.shape[3] |->
            IF nc[j] /\ k <= 2 THEN Invert(d.dtype, d.val[i][j][k]) ELSE d.val[i][j][k]]]]]

\* self.data[:, need_conversion, :2] = ~self.data[:, need_conversion, :2]
FlipColumns(d, nc) ==
    [d EXCEPT !.val = [i \in 1..d.shape[1] |-> [j \in 1..d.shape[2] |->
        [k \in 1..d.shape[3] |->
            IF nc[j] /\ k <= 2 THEN Invert(d.dtype, d.val[i][j][k]) ELSE d.val[i][j][k]]]]]

\* self.variants["aaf"][need_conversion] = 1 - self.variants["aaf"][need_conversion]
FlipFreqs(v, nc) ==
    [v EXCEPT !.val = [j \in 1..Len(v.val) |->
        IF nc[j] THEN [v.val[j] EXCEPT !.freq = FreqOne - v.val[j].freq] ELSE v.val[j]]]

\* the field names left as they are
Rename_none(v) == v

\* self.variants.dtype.names = [(x, "maf")[x == "aaf"] for x in ...]
Rename(v) ==
    [v EXCEPT !.names = [k \in 1..Len(v.names) |->
        IF v.names[k] = "aaf" THEN "maf" ELSE v.names[k]]]

to_MAC(self) ==
    IF self.variants.kind # "ndarray" THEN Raise(self, AttributeError, <<>>)
    ELSE IF Len(self.variants.names) < 4 THEN Raise(self, Error("TypeError", <<>>), <<>>)
    ELSE IF self.variants.names[4] = "maf"
    THEN Return(self, <<"The matrix already counts instances of the minor allele">>)
    ELSE IF self.data.kind # "ndarray" \/ Len(self.data.shape) # 3
    THEN Raise(self, IndexError, <<>>)
    ELSE LET nc == need_conversion(self.variants)
         IN  Return([self EXCEPT !.data = FlipColumns(self.data, nc),
                                 !.variants = Rename(FlipFreqs(self.variants, nc))], <<>>)

ToMAC ==
    LET r == to_MAC(Self)
    IN  /\ Call("to_MAC", FALSE, r)
        /\ done' = Succeeded("to_MAC", r)
        /\ UNCHANGED <<file, vcf, gen>>

(* ---------------------------- Genotypes.iterate ----------------------- *)
\* The generator iterate() returns: its position in the body ("created"
\* before the first next(), "suspended" at the yield, "finished" after the
\* body returned, "raised" after the reader raised, "closed" when the
\* consumer closed or dropped it), the records the reader has left to give,
\* the handle it opened and the Record it yielded last.
NoRecord == [data |-> NoneValue, samples |-> <<>>, variants |-> <<>>]

\* Record(data, samples, variants) of one source record
YieldRecord(rec, names) ==
    [data |-> NdArray(<<Len(rec.genotypes), 3>>, "uint8", rec.genotypes),
     samples |-> names,
     variants |-> <<rec.ID, rec.CHROM, rec.POS, rec.aaf>>]

\* calling iterate(): no statement of the body has run yet
Iterate ==
    \E region \in Regions :
        /\ gen.state \in {"none", "finished", "raised", "closed"}
        /\ gen' = [state |-> "created", region |-> region, left |-> <<>>,
                   vcf |-> "none", yielded |-> NoRecord]
        /\ UNCHANGED <<file, data, variants, samples, last, done, vcf>>

\* next() on the generator: runs the body up to the next yield, to its end,
\* or to the point where the reader raises
GenNext ==
    \E fault \in BOOLEAN :
        /\ gen.state \in {"created", "suspended"}
        /\ LET left == IF gen.state = "created" THEN Query(file, gen.region) ELSE gen.left
           IN  gen' = IF fault
                      THEN [gen EXCEPT !.state = "raised", !.vcf = "open", !.left = left]
                      ELSE IF left # <<>>
                      THEN [gen EXCEPT !.state = "suspended", !.vcf = "open",
                                       !.left = Tail(left),
                                       !.yielded = YieldRecord(Head(left), file.samples)]
                      ELSE [gen EXCEPT !.state = "finished", !.vcf = "closed", !.left = left]
        /\ UNCHANGED <<file, data, variants, samples, last, done, vcf>>

\* the consumer stops iterating: the generator is closed where it stands, so
\* the statements after the yield never run
GenClose ==
    /\ gen.state \in {"created", "suspended"}
    /\ gen' = [gen EXCEPT !.state = "closed"]
    /\ UNCHANGED <<file, data, variants, samples, last, done, vcf>>

(* ---------------------------- Genotypes.load -------------------------- *)
\* cls(fname): no data, no samples, an empty variants array
NewObject ==
    [data |-> NoneValue,
     variants |-> [kind |-> "ndarray", names |-> <<>>, val |-> <<>>],
     samples |-> <<>>]

\* the object a call result describes
Obj(r) == [data |-> r.data, variants |-> r.variants, samples |-> r.samples]

\* load with the commented-out to_MAC() call run as its last step
load_toMAC(f, region, fault) ==
    LET r1 == read(NewObject, f, region, fault)
        r2 == check_biallelic(Obj(r1.res), FALSE)
        r3 == check_phase(Obj(r2))
        r4 == to_MAC(Obj(r3))
    IN  IF r1.res.err # NoErr
        THEN [res |-> r1.res, closed |-> r1.closed, done |-> {}]
        ELSE IF r2.err # NoErr
        THEN [res |-> [r2 EXCEPT !.log = r1.res.log \o r2.log],
              closed |-> r1.closed, done |-> {}]
        ELSE IF r3.err # NoErr
        THEN [res |-> [r3 EXCEPT !.log = r1.res.log \o r2.log \o r3.log],
              closed |-> r1.closed, done |-> {"check_biallelic"}]
        ELSE [res |-> [r4 EXCEPT !.log = r1.res.log \o r2.log \o r3.log \o r4.log],
              closed |-> r1.closed, done |-> {"check_biallelic", "check_phase", "to_MAC"}]

\* genotypes = cls(fname); read; check_biallelic(); check_phase(); return.
\* An exception of a step ends load there; the result tells which steps
\* returned and whether vcf.close() was reached.
load(f, region, fault) ==
    LET r1 == read(NewObject, f, region, fault)
        r2 == check_biallelic(Obj(r1.res), FALSE)
        r3 == check_phase(Obj(r2))
    IN  IF r1.res.err # NoErr
        THEN [res |-> r1.res, closed |-> r1.closed, done |-> {}]
        ELSE IF r2.err # NoErr
        THEN [res |-> [r2 EXCEPT !.log = r1.res.log \o r2.log],
              closed |-> r1.closed, done |-> {}]
        ELSE [res |-> [r3 EXCEPT !.log = r1.res.log \o r2.log \o r3.log],
              closed |-> r1.closed,
              done |-> IF r3.err # NoErr THEN {"check_biallelic"}
                       ELSE {"check_biallelic", "check_phase"}]

\* Genotypes.load(fname, region): the variables describe the new object
Load ==
    \E region \in Regions, fault \in 0..(MaxVariants + 1) :
        /\ fault <= Len(Query(file, region)) + 1
        /\ LET r == load(file, region, fault)
           IN  /\ data' = r.res.data
               /\ variants' = r.res.variants
               /\ samples' = r.res.samples
               /\ last' = [op |-> "load", discard |-> FALSE, err |-> r.res.err,
                           log |-> r.res.log, region |-> region]
               /\ vcf' = IF r.closed THEN "closed" ELSE "open"
               /\ done' = r.done
        /\ UNCHANGED <<file, gen>>

(* ---------------------------- GenotypesPLINK.read -------------------- *)
\* Python values that are None or an integer
PyNone == [isNone |-> TRUE, val |-> 0]
PyInt(k) == [isNone |-> FALSE, val |-> k]

\* a - b: a TypeError when an operand is None
PySub(a, b) ==
    IF a.isNone \/ b.isNone THEN [err |-> Error("TypeError", <<>>), val |-> PyNone]
    ELSE [err |-> NoErr, val |-> PyInt(a.val - b.val)]

\* what pgen.read_alleles_range writes into the buffer: one row per variant,
\* two adjacent columns per sample
PgenAlleles(f) ==
    [j \in 1..Len(f.recs) |-> [c \in 1..(2 * Len(f.samples)) |->
        f.recs[j].genotypes[(c + 1) \div 2][2 - (c % 2)]]]

\* np.dstack((raw[:, ::2], raw[:, 1::2])) of a (rows, cols) matrix
Dstack(raw, rows, cols) ==
    NdArray(<<rows, cols \div 2, 2>>, "int32",
            [j \in 1..rows |-> [i \in 1..(cols \div 2) |-> <<raw[j][2 * i - 1], raw[j][2 * i]>>]])

plink_read(self, f) ==
    LET log0 == Data_read(self)
        variant_ct_start == PyInt(0)
        variant_ct_end == PyNone
        variant_ct == PySub(variant_ct_end, variant_ct_start)
        sample_ct == Len(f.samples)
        raw == PgenAlleles(f)
    IN  IF variant_ct.err # NoErr THEN Raise(self, variant_ct.err, log0)
        ELSE Return([self EXCEPT
                       !.data = Transpose(Dstack(raw, variant_ct.val.val, sample_ct * 2))],
                    log0)

\* GenotypesPLINK(fname).read()
PlinkRead ==
    /\ Call("GenotypesPLINK.read", FALSE, plink_read(Self, file))
    /\ done' = {}
    /\ UNCHANGED <<file, vcf, gen>>

(* ---------------------------- specification ---------------------------- *)
NoGen == [state |-> "none", region |-> NoRegion, left |-> <<>>, vcf |-> "none", yielded |-> NoRecord]

Init ==
    /\ file \in Files
    /\ data = NoneValue
    /\ variants = [kind |-> "ndarray", names |-> <<>>, val |-> <<>>]
    /\ samples = <<>>
    /\ last = [op |-> "init", discard |-> FALSE, err |-> NoErr, log |-> <<>>]
    /\ done = {}
    /\ vcf = "none"
    /\ gen = NoGen

Next == Read \/ CheckBiallelic \/ CheckPhase \/ ToMAC

Spec == Init /\ [][Next]_vars

\* the operations that open the source: read and the streaming iterator
NextSource == Read \/ Iterate \/ GenNext \/ GenClose

SpecSource == Init /\ [][NextSource]_vars

\* the one-call entry point
NextLoad == Load

SpecLoad == Init /\ [][NextLoad]_vars

\* a GenotypesPLINK object: it is built like a Genotypes object
NextPLINK == PlinkRead

SpecPLINK == Init /\ [][NextPLINK]_vars
(* ---------------------------- properties ------------------------------- *)
\* data is an (n, p, c) array
IsTensor(d) == d.kind = "ndarray" /\ Len(d.shape) = 3

\* entry (i, j) of d holds a value above 1 on one of its two strands
Offending(d, i, j) == d.val[i][j][1] > 1 \/ d.val[i][j][2] > 1

HasOffending(d) == \E i \in 1..d.shape[1], j \in 1..d.shape[2] : Offending(d, i, j)

\* C1: once read has been called, data.shape[0] == len(samples) and
\* data.shape[1] == len(variants) after every call, failed calls and reads
\* that match nothing included.
C1_AxesMatchMetadata ==
    vcf # "none" =>
        /\ data.kind = "ndarray"
        /\ Len(data.shape) >= 2
        /\ data.shape[1] = Len(samples)
        /\ data.shape[2] = Len(variants.val)

\* C2: check_biallelic(discard_also=False) on data with a strand value above
\* 1 raises a ValueError naming the id, chrom and pos of the variant and the
\* sample of the first offending entry in sample-major order: the lowest
\* offending sample, and that sample's lowest offending variant.
C2_FirstOffendingNamed ==
    [][(/\ last'.op = "check_biallelic" /\ ~last'.discard
        /\ IsTensor(data) /\ HasOffending(data))
       => \E i \in 1..data.shape[1], j \in 1..data.shape[2] :
            /\ Offending(data, i, j)
            /\ \A i2 \in 1..data.shape[1], j2 \in 1..data.shape[2] :
                 Offending(data, i2, j2) => (i < i2 \/ (i = i2 /\ j <= j2))
            /\ last'.err = Error("ValueError",
                   <<"multiallelic", variants.val[j].id, variants.val[j].chrom,
                     variants.val[j].pos, samples[i]>>)]_vars

\* a state where the order decides: sample 1 offends only at variant 2,
\* sample 2 at variant 1, and the error names variant 2 and sample 1
C2_Witness ==
    /\ last.op = "check_biallelic" /\ ~last.discard
    /\ IsTensor(data) /\ data.shape[2] >= 2
    /\ ~Offending(data, 1, 1) /\ Offending(data, 1, 2) /\ Offending(data, 2, 1)
    /\ last.err.type = "ValueError"
    /\ last.err.msg[2] = <<"rs", 2>> /\ last.err.msg[5] = <<"HG", 1>>

\* C3: when check_biallelic(discard_also=False) or check_phase raises, data
\* (values, dtype, channels), variants and samples are what they were.
C3_FailedCheckMutatesNothing ==
    [][(/\ \/ (last'.op = "check_biallelic" /\ ~last'.discard)
           \/ last'.op = "check_phase"
        /\ last'.err # NoErr)
       => (data' = data /\ variants' = variants /\ samples' = samples)]_vars

\* check_phase has raised on a narrowed tensor that still has its phase channel
C3_Witness ==
    /\ last.op = "check_phase" /\ last.err.type = "ValueError"
    /\ IsTensor(data) /\ data.dtype = "bool" /\ data.shape[3] = 3

\* the positions 1..n that are not in bad, in increasing order
RECURSIVE Ascending(_, _)
Ascending(n, bad) ==
    IF n = 0 THEN <<>>
    ELSE Ascending(n - 1, bad) \o (IF n \in bad THEN <<>> ELSE <<n>>)

\* C4: check_biallelic(discard_also=True) on a non-boolean tensor does not
\* raise; it removes exactly the variants with a strand value above 1 for some
\* sample, from data and from variants; the other variants keep their order,
\* column and metadata; samples is unchanged; data becomes boolean.
C4_DiscardRemovesExactlyOffending ==
    [][(/\ last'.op = "check_biallelic" /\ last'.discard
        /\ IsTensor(data) /\ data.dtype # "bool")
       => LET bad == {j \in 1..data.shape[2] :
                         \E i \in 1..data.shape[1] : Offending(data, i, j)}
              keep == Ascending(data.shape[2], bad)
          IN  /\ last'.err = NoErr
              /\ samples' = samples
              /\ variants'.names = variants.names
              /\ variants'.val = [k \in 1..Len(keep) |-> variants.val[keep[k]]]
              /\ data'.dtype = "bool"
              /\ data'.shape = <<data.shape[1], Len(keep), data.shape[3]>>
              /\ data'.val = [i \in 1..data.shape[1] |-> [k \in 1..Len(keep) |->
                     [c \in 1..data.shape[3] |-> AsBool(data.val[i][keep[k]][c])]]]]_vars

\* a discard that removed a variant and kept a later one
C4_Witness ==
    /\ last.op = "check_biallelic" /\ last.discard /\ last.err = NoErr
    /\ IsTensor(data) /\ data.dtype = "bool"
    /\ Len(Query(file, NoRegion)) >= 2
    /\ Len(variants.val) = 1
    /\ variants.val[1].id = <<"rs", 2>>
\* entry (i, j) of a 3-channel d is heterozygous with a false phase flag
HetUnphased(d, i, j) == d.val[i][j][1] # d.val[i][j][2] /\ d.val[i][j][3] = 0

\* C5: on a tensor that still has 3 channels, boolean or uint8 (codes above 1
\* included), check_phase raises if and only if some entry has
\* strand1 != strand2 and a false phase flag; otherwise it succeeds and drops
\* the phase channel.
C5_RaisesIffHetUnphased ==
    [][(/\ last'.op = "check_phase"
        /\ IsTensor(data) /\ data.shape[3] = 3)
       => LET bad == \E i \in 1..data.shape[1], j \in 1..data.shape[2] :
                         HetUnphased(data, i, j)
          IN  /\ (last'.err # NoErr) <=> bad
              /\ ~bad => data' = FirstTwo(data)]_vars

C7_FirstToMAC ==
    [][(/\ last'.op = "to_MAC" /\ "to_MAC" \notin done
        /\ IsTensor(data) /\ data.dtype = "bool")
       => /\ last'.err = NoErr
          /\ variants.names[4] = "aaf" /\ variants'.names[4] = "maf"
          /\ data'.shape = data.shape /\ data'.dtype = "bool"
          /\ Len(variants'.val) = Len(variants.val)
          /\ \A j \in 1..data.shape[2] :
               LET f == variants.val[j].freq
               IN  /\ variants'.val[j].id = variants.val[j].id
                   /\ \A i \in 1..data.shape[1] :
                        /\ data'.val[i][j][1] = (IF 2 * f > FreqOne THEN 1 - data.val[i][j][1]
                                                                ELSE data.val[i][j][1])
                        /\ data'.val[i][j][2] = (IF 2 * f > FreqOne THEN 1 - data.val[i][j][2]
                                                                ELSE data.val[i][j][2])
                   /\ variants'.val[j].freq = (IF 2 * f > FreqOne THEN FreqOne - f ELSE f)]_vars

\* a first to_MAC that flipped one variant (0.6 became 0.4) and left another
\* one at exactly 0.5
C7_Witness ==
    /\ last.op = "to_MAC" /\ last.err = NoErr /\ last.log = <<>>
    /\ IsTensor(data) /\ data.dtype = "bool"
    /\ \E j, k \in 1..Len(variants.val) :
         variants.val[j].freq = 4 /\ variants.val[k].freq = 5

TwoChannels(d) == IsTensor(d) /\ d.shape[3] = 2
Boolean(d) == d.kind = "ndarray" /\ d.dtype = "bool"

\* C8 as stated: over any sequence of read, check_biallelic, check_phase and
\* to_MAC, data with 2 channels never has 3 again and boolean data never
\* reverts to counts.
C8_NeverGrowsBack ==
    [][/\ TwoChannels(data) => TwoChannels(data')
       /\ Boolean(data) => Boolean(data')]_vars

\* C8 amended: the same, over the calls other than read.
C8_NeverGrowsBackUntilRead ==
    [][last'.op # "read"
       => /\ TwoChannels(data) => TwoChannels(data')
          /\ Boolean(data) => Boolean(data')]_vars

\* to_MAC has rewritten a boolean 2-channel tensor
C8_Witness ==
    /\ last.op = "to_MAC" /\ last.err = NoErr /\ last.log = <<>>
    /\ TwoChannels(data) /\ Boolean(data)
    /\ \E j \in 1..Len(variants.val) : variants.val[j].freq = 4

\* C9: a read that matches no record logs a warning and returns an empty
\* matrix; it does not raise.
C9_EmptyReadWarns ==
    (last.op = "read" /\ last.err.type # "ReaderError" /\ variants.val = <<>>)
       => /\ last.err = NoErr
          /\ \E k \in 1..Len(last.log) : last.log[k] = "failed to load"
          /\ IsTensor(data) /\ data.shape[2] = 0

\* C10: the handle read opened is closed when read exits, and the handle the
\* iterator opened is closed when the generator is finished, has raised, or
\* was closed by a consumer that stopped early.
C10_HandleClosedOnExit ==
    /\ last.op = "read" => vcf = "closed"
    /\ gen.state \in {"finished", "raised", "closed"} => gen.vcf # "open"
\* a strand value above 1, or a heterozygous call with a false phase flag,
\* among the calls of the records
BadCalls(recs) ==
    \E j \in 1..Len(recs) : \E i \in 1..Len(recs[j].genotypes) :
        LET g == recs[j].genotypes[i]
        IN  g[1] > 1 \/ g[2] > 1 \/ (g[1] # g[2] /\ g[3] = 0)

StrandAboveOne(recs) ==
    \E j \in 1..Len(recs) : \E i \in 1..Len(recs[j].genotypes) :
        recs[j].genotypes[i][1] > 1 \/ recs[j].genotypes[i][2] > 1

C12_PlinkReadLayout ==
    last.op = "GenotypesPLINK.read" =>
        LET raw == PgenAlleles(file)
            n == Len(file.samples)
            p == Len(file.recs)
        IN  /\ last.err = NoErr
            /\ IsTensor(data) /\ data.shape = <<n, p, 2>>
            /\ \A i \in 1..n, j \in 1..p :
                 data.val[i][j] = <<raw[j][2 * i - 1], raw[j][2 * i]>>
\* data is a tensor just read whose strand values are all 0 or 1
FreshBinary ==
    /\ last.op = "read" /\ last.err = NoErr
    /\ IsTensor(data) /\ ~HasOffending(data)

\* C13: on a freshly read tensor whose strand values are all 0 or 1, to_MAC
\* followed by check_biallelic succeeds and ends with the same data and
\* variants as check_biallelic followed by to_MAC.
C13_ToMACCommutesWithBiallelic ==
    FreshBinary =>
        LET mac_first == check_biallelic(Obj(to_MAC(Self)), FALSE)
            check_first == to_MAC(Obj(check_biallelic(Self, FALSE)))
        IN  /\ mac_first.err = NoErr
            /\ check_first.err = NoErr
            /\ mac_first.data = check_first.data
            /\ mac_first.variants = check_first.variants
====
